---- MODULE Spec2Model ----
(***************************************************************************)
(* Session engine of the AI-companion app (src/App.tsx): session start,    *)
(* stop, the streaming-connection callbacks (onopen, onmessage, onerror,   *)
(* onclose) and the playback scheduler driven by nextStartTimeRef.         *)
(*                                                                         *)
(* Every await of the source is a step boundary: the code before an await  *)
(* is one action, the continuation after it is another one.  References    *)
(* that are null in the source are 0 here; connections, media streams and  *)
(* audio contexts carry the number of the start attempt that created them. *)
(***************************************************************************)
EXTENDS Integers, FiniteSets, Sequences, TLC

\* ---- bounds of the model ------------------------------------------------
MaxAttempts == 2        \* start requests in one run
MaxMsgs == 2            \* server messages delivered in one run of Spec
MaxLifeClock == 1       \* last value of the output clock in Spec
MaxLifeDur == 1         \* longest chunk duration in Spec
MaxChunks == 3          \* server messages delivered in one run of SpecPlayback
MaxClock == 3           \* last value of the output clock in SpecPlayback
MaxDur == 2             \* longest chunk duration in SpecPlayback
MaxTurnMsgs == 2        \* server messages delivered in one run of SpecTurns
MaxLifeTurnMsgs == 1    \* server messages delivered in one run of SpecTranscript
MaxDictations == 1      \* dictations in one run of SpecTurns and SpecTranscript
MaxTicks == 2           \* sampling ticks in one run of SpecFrames
MaxWidth == 1           \* largest width the video element reports
MaxBlocks == 2          \* runs of onaudioprocess in one run of SpecAudio and SpecEncode

Max(a, b) == IF a >= b THEN a ELSE b

Attempts == 1..MaxAttempts
MsgIds == 1..Max(MaxMsgs, Max(MaxChunks, MaxTurnMsgs))

\* ---- values -------------------------------------------------------------
NoError == "null"
NetworkError == "Network error occurred."
AccessError == "Camera/Microphone access failed."

\* Texts are sequences of tokens: a word, a blank (" ") or the fragment that
\* message k carried ("u1" for the user's, "m1" for the model's).
None == <<>>                     \* no englishTranslation (undefined)
Skip == <<"SKIP">>               \* the sentinel translateToEnglish looks for
NoTranscription == <<"No transcription available.">>

\* What a generateContent call may come back with: a text, or an exception.
Responses ==
  {[ok |-> TRUE, text |-> b] :
      b \in {<<"Hello", " ">>, <<"SKIP">>, <<" ", "SKIP">>, <<>>}}
    \cup {[ok |-> FALSE, text |-> <<>>]}

NoCall == [id |-> 0, text |-> <<>>, resp |-> [ok |-> FALSE, text |-> <<>>]]

\* String.prototype.trim on a text.
RECURSIVE trimStart(_)
trimStart(t) ==
  IF t # <<>> /\ Head(t) = " " THEN trimStart(Tail(t)) ELSE t

RECURSIVE trimEnd(_)
trimEnd(t) ==
  IF t # <<>> /\ t[Len(t)] = " " THEN trimEnd(SubSeq(t, 1, Len(t) - 1)) ELSE t

trim(t) == trimEnd(trimStart(t))

\* f is one of the tokens of text t.
In(f, t) == \E i \in DOMAIN t : t[i] = f

VARIABLES
  isActive,            \* useState isActive
  isCamOn,             \* useState isCamOn
  sessionError,        \* useState sessionError
  sessionRef,          \* connection handle, 0 = null
  mediaStreamRef,      \* media stream, 0 = null
  frameIntervalRef,    \* TRUE iff a frame-sampling timer is installed
  outputAudioCtxRef,   \* output audio context, 0 = null
  nextStartTimeRef,    \* playback cursor
  audioSourcesRef,     \* ActiveSourceSet: ids of the tracked sources
  currentTime,         \* clock of the current output audio context
  pc,                  \* position of each startSession call
  conns,               \* state of each service connection
  opened,              \* attempts whose connection has opened
  streams,             \* state of each acquired media stream
  decoding,            \* onmessage handlers suspended at await decodeAudioData
  playing,             \* sources started and neither stopped nor ended
  nMsgs,               \* messages delivered so far
  sched,               \* history: chunks scheduled in the current stretch
  afterIntr,           \* history: an interruption was handled, no chunk since
  overlap,             \* history: attempts requested while another was under way
  last,                \* history: the handler that ran last ("step" for most)
  isTranslationEnabled,   \* useState isTranslationEnabled, as the handlers see it
  currentUserInputRef,    \* accumulator of the user's fragments
  currentModelOutputRef,  \* accumulator of the model's fragments
  translating,         \* onmessage handlers suspended at await translateToEnglish
  transcript,          \* useState transcript
  dictation,           \* position of the dictation recorder
  transcribing,        \* transcribeAudio calls in flight
  videoWidth,          \* localVideoRef.current.videoWidth
  frames,              \* frames drawn and not yet encoded (toBlob, FileReader)
  nTicks,              \* runs of the sampling timer's callback so far
  sent,                \* history: frames passed to sendRealtimeInput
  fragments,           \* history: transcript fragments received
  doneTurns,           \* history: turn completions that ran to their end
  lastCall,            \* history: the translation call that returned last
  isMicOn,             \* useState isMicOn
  micAtStart,          \* isMicOn as the callbacks of each start attempt see it
  nBlocks,             \* runs of onaudioprocess so far
  queued,              \* per attempt: blocks whose send waits for sessionPromise
  sentAudio,           \* history: the audio blocks sent, in the order of the sends
  stopped              \* history: a stop, close or error has run since the last start request

vars == <<isActive, isCamOn, sessionError, sessionRef, mediaStreamRef,
          frameIntervalRef, outputAudioCtxRef, nextStartTimeRef,
          audioSourcesRef, currentTime, pc, conns, opened, streams, decoding,
          playing, nMsgs, sched, afterIntr, overlap, last,
          isTranslationEnabled, currentUserInputRef, currentModelOutputRef,
          translating, transcript, dictation, transcribing, videoWidth,
          frames, nTicks, sent, fragments, doneTurns, lastCall,
          isMicOn, micAtStart, nBlocks, queued, sentAudio, stopped>>

\* The transcript aggregator's part of the record Cur.
turnVars == <<currentUserInputRef, currentModelOutputRef, translating,
              transcript, fragments, doneTurns>>

\* The microphone path: the toggle and the blocks of onaudioprocess.
captureVars == <<isMicOn, micAtStart, nBlocks, queued, sentAudio>>

\* What the session handlers never touch: dictation and frame sampling.
sideVars == <<isTranslationEnabled, dictation, transcribing, videoWidth,
              frames, nTicks, sent>>

\* The refs and state the handlers work on, as one record.
Cur ==
  [isActive |-> isActive, isCamOn |-> isCamOn, sessionRef |-> sessionRef,
   mediaStreamRef |-> mediaStreamRef, frameIntervalRef |-> frameIntervalRef,
   nextStartTimeRef |-> nextStartTimeRef, audioSourcesRef |-> audioSourcesRef,
   conns |-> conns, streams |-> streams, decoding |-> decoding,
   playing |-> playing, sched |-> sched, afterIntr |-> afterIntr,
   currentUserInputRef |-> currentUserInputRef,
   currentModelOutputRef |-> currentModelOutputRef,
   translating |-> translating, transcript |-> transcript,
   fragments |-> fragments, doneTurns |-> doneTurns]

Set(s) ==
  /\ isActive' = s.isActive
  /\ isCamOn' = s.isCamOn
  /\ sessionRef' = s.sessionRef
  /\ mediaStreamRef' = s.mediaStreamRef
  /\ frameIntervalRef' = s.frameIntervalRef
  /\ nextStartTimeRef' = s.nextStartTimeRef
  /\ audioSourcesRef' = s.audioSourcesRef
  /\ conns' = s.conns
  /\ streams' = s.streams
  /\ decoding' = s.decoding
  /\ playing' = s.playing
  /\ sched' = s.sched
  /\ afterIntr' = s.afterIntr
  /\ currentUserInputRef' = s.currentUserInputRef
  /\ currentModelOutputRef' = s.currentModelOutputRef
  /\ translating' = s.translating
  /\ transcript' = s.transcript
  /\ fragments' = s.fragments
  /\ doneTurns' = s.doneTurns

\* No session: nothing held, nothing scheduled.
Idle(s) ==
  /\ ~s.isActive
  /\ s.sessionRef = 0
  /\ ~s.frameIntervalRef
  /\ s.mediaStreamRef = 0
  /\ s.audioSourcesRef = {}
  /\ s.nextStartTimeRef = 0

\* History only: a stretch of playback ends; handlers still decoding belong
\* to the stretch that ended.
CutStretch(s) ==
  [s EXCEPT !.sched = {},
            !.decoding = {[h EXCEPT !.cut = TRUE] : h \in s.decoding}]

\* An effect that looks at isActive only.
frameEffect_activeOnly(s) ==
  [s EXCEPT !.frameIntervalRef = s.isActive]

\* useEffect on [isActive, isCamOn]: the timer exists iff both hold.
frameEffect(s) ==
  [s EXCEPT !.frameIntervalRef = s.isActive /\ s.isCamOn]

\* A stop that flips isActive instead of clearing it.
stopSession_toggle(s) ==
  frameEffect(CutStretch(
    [s EXCEPT
       !.isActive = ~s.isActive,
       !.conns = IF s.sessionRef # 0
                   THEN [s.conns EXCEPT ![s.sessionRef] = "closed"]
                   ELSE s.conns,
       !.sessionRef = 0,
       !.frameIntervalRef = FALSE,
       !.streams = IF s.mediaStreamRef # 0
                     THEN [s.streams EXCEPT ![s.mediaStreamRef] = "stopped"]
                     ELSE s.streams,
       !.mediaStreamRef = 0,
       !.playing = s.playing \ s.audioSourcesRef,
       !.audioSourcesRef = {},
       !.nextStartTimeRef = 0,
       !.afterIntr = FALSE]))

\* stopSession, with the effect that follows setIsActive(false).
stopSession(s) ==
  frameEffect(CutStretch(
    [s EXCEPT
       !.isActive = FALSE,
       !.conns = IF s.sessionRef # 0
                   THEN [s.conns EXCEPT ![s.sessionRef] = "closed"]
                   ELSE s.conns,
       !.sessionRef = 0,
       !.frameIntervalRef = FALSE,
       !.streams = IF s.mediaStreamRef # 0
                     THEN [s.streams EXCEPT ![s.mediaStreamRef] = "stopped"]
                     ELSE s.streams,
       !.mediaStreamRef = 0,
       !.playing = s.playing \ s.audioSourcesRef,
       !.audioSourcesRef = {},
       !.nextStartTimeRef = 0,
       !.afterIntr = FALSE]))

\* The transcript, the accumulators, dictation and the frame sampler of a
\* freshly mounted App.
InitAggregator ==
  /\ currentUserInputRef = <<>>
  /\ currentModelOutputRef = <<>>
  /\ translating = {}
  /\ transcript = <<>>
  /\ dictation = "idle"
  /\ transcribing = 0
  /\ videoWidth = 0
  /\ frames = {}
  /\ nTicks = 0
  /\ sent = {}
  /\ fragments = {}
  /\ doneTurns = {}
  /\ lastCall = NoCall
  /\ isMicOn = TRUE
  /\ micAtStart = [a \in Attempts |-> TRUE]
  /\ nBlocks = 0
  /\ queued = [a \in Attempts |-> <<>>]
  /\ sentAudio = <<>>
  /\ stopped = FALSE

Init ==
  /\ isActive = FALSE
  /\ isCamOn = TRUE
  /\ sessionError = NoError
  /\ sessionRef = 0
  /\ mediaStreamRef = 0
  /\ frameIntervalRef = FALSE
  /\ outputAudioCtxRef = 0
  /\ nextStartTimeRef = 0
  /\ audioSourcesRef = {}
  /\ currentTime = 0
  /\ pc = [a \in Attempts |-> "idle"]
  /\ conns = [a \in Attempts |-> "none"]
  /\ opened = {}
  /\ streams = [a \in Attempts |-> "none"]
  /\ decoding = {}
  /\ playing = {}
  /\ nMsgs = 0
  /\ sched = {}
  /\ afterIntr = FALSE
  /\ overlap = {}
  /\ last = "init"
  /\ isTranslationEnabled = TRUE
  /\ InitAggregator

\* The Leave button: enabled only while isActive.
Leave ==
  /\ isActive
  /\ Set(stopSession(Cur))
  /\ last' = "leave"
  /\ UNCHANGED <<sessionError, outputAudioCtxRef, currentTime, pc, opened,
                 nMsgs, overlap>>
  /\ UNCHANGED <<sideVars, lastCall>>
  /\ stopped' = TRUE
  /\ UNCHANGED captureVars

\* An attempt that has been requested and has neither opened nor ended.
Connecting(a) ==
  \/ pc[a] = "acquiring"
  \/ pc[a] = "connecting" /\ conns[a] = "connecting"

\* The Initialize Session button, rendered only while ~isActive; the code up
\* to await getUserMedia.
startSession(a) ==
  /\ ~isActive
  /\ pc[a] = "idle"
  /\ \A b \in Attempts : b < a => pc[b] # "idle"
  /\ sessionError' = NoError
  /\ pc' = [pc EXCEPT ![a] = "acquiring"]
  /\ overlap' = IF \E b \in Attempts : Connecting(b)
                  THEN overlap \cup {a} ELSE overlap
  /\ last' = "step"
  /\ UNCHANGED <<isActive, isCamOn, sessionRef, mediaStreamRef,
                 frameIntervalRef, outputAudioCtxRef, nextStartTimeRef,
                 audioSourcesRef, currentTime, conns, opened, streams,
                 decoding, playing, nMsgs, sched, afterIntr>>
  /\ UNCHANGED <<turnVars, sideVars, lastCall>>
  /\ micAtStart' = [micAtStart EXCEPT ![a] = isMicOn]
  /\ stopped' = FALSE
  /\ UNCHANGED <<isMicOn, nBlocks, queued, sentAudio>>

\* getUserMedia resolved: the stream is kept, the audio contexts are created
\* and the connection is requested, up to await sessionPromise.
getUserMediaOk(a) ==
  /\ pc[a] = "acquiring"
  /\ Set(CutStretch([Cur EXCEPT !.mediaStreamRef = a,
                                !.streams[a] = "live",
                                !.conns[a] = "connecting",
                                !.afterIntr = FALSE]))
  /\ outputAudioCtxRef' = a
  /\ currentTime' = 0
  /\ pc' = [pc EXCEPT ![a] = "connecting"]
  /\ last' = "step"
  /\ UNCHANGED <<sessionError, opened, nMsgs, overlap>>
  /\ UNCHANGED <<sideVars, lastCall>>
  /\ UNCHANGED <<captureVars, stopped>>

\* A catch block that reports nothing.
catchStartSession_silent(a, to) ==
  /\ sessionError' = sessionError
  /\ pc' = [pc EXCEPT ![a] = to]

\* The catch block of startSession.
catchStartSession(a, to) ==
  /\ sessionError' = AccessError
  /\ pc' = [pc EXCEPT ![a] = to]

\* getUserMedia rejected (permission denied, device unavailable).
getUserMediaFail(a) ==
  /\ pc[a] = "acquiring"
  /\ catchStartSession(a, "acqFailed")
  /\ last' = "acquireFailed"
  /\ UNCHANGED <<isActive, isCamOn, sessionRef, mediaStreamRef,
                 frameIntervalRef, outputAudioCtxRef, nextStartTimeRef,
                 audioSourcesRef, currentTime, conns, opened, streams,
                 decoding, playing, nMsgs, sched, afterIntr, overlap>>
  /\ UNCHANGED <<turnVars, sideVars, lastCall>>
  /\ UNCHANGED <<captureVars, stopped>>

onopen(a) ==
  /\ conns[a] = "connecting"
  /\ Set(frameEffect([Cur EXCEPT !.conns[a] = "open", !.isActive = TRUE]))
  /\ opened' = opened \cup {a}
  /\ last' = "step"
  /\ UNCHANGED <<sessionError, outputAudioCtxRef, currentTime, pc, nMsgs,
                 overlap>>
  /\ UNCHANGED <<sideVars, lastCall>>
  /\ UNCHANGED <<captureVars, stopped>>

\* ---- microphone capture -------------------------------------------------
\* A sample s of the input buffer is held as the integer s * 4 * Scale, so
\* that s * Scale is a quarter of it: 1.0 is 4 * Scale, the least step 1/4.
Scale == 32768

\* The samples tried: 0.0, values just below and above a whole multiple of
\* 1/Scale, 0.5 and the ends of [-1,1].
Samples ==
  {0, 3, -3, 4, -4, 5, -5, 2 * Scale, 4 * Scale - 1, 1 - 4 * Scale,
   4 * Scale, -(4 * Scale)}

\* int16[i] = inputData[i] * 32768: storing a number into an Int16Array
\* drops the fraction (toward zero), then reduces the integer modulo 2^16
\* into -2^15 .. 2^15 - 1.
ToInt16_clamped(k) ==
  LET n == IF k >= 0 THEN k \div 4 ELSE -((-k) \div 4)
  IN  IF n > Scale - 1 THEN Scale - 1 ELSE IF n < -Scale THEN -Scale ELSE n

ToInt16(k) ==
  LET n == IF k >= 0 THEN k \div 4 ELSE -((-k) \div 4)
  IN  ((n + Scale) % (2 * Scale)) - Scale

\* s.sendRealtimeInput({media: ...}) on the session of attempt a: the call
\* is made whatever the state of the connection.
sendRealtimeInput(a, b) == [b EXCEPT !.open = (conns[a] = "open")]

\* The callbacks of sessionPromise.then, run in the order they were added.
flush(a) == [i \in 1..Len(queued[a]) |-> sendRealtimeInput(a, queued[a][i])]

\* The Mic button.
toggleMic ==
  /\ isMicOn' = ~isMicOn
  /\ UNCHANGED <<isActive, isCamOn, sessionError, sessionRef, mediaStreamRef,
                 frameIntervalRef, outputAudioCtxRef, nextStartTimeRef,
                 audioSourcesRef, currentTime, pc, conns, opened, streams,
                 decoding, playing, nMsgs, sched, afterIntr, overlap, last>>
  /\ UNCHANGED <<turnVars, sideVars, lastCall>>
  /\ UNCHANGED <<micAtStart, nBlocks, queued, sentAudio, stopped>>

\* scriptProcessor.onaudioprocess of attempt a, for a block of the one
\* sample x.  The processor exists once onopen(a) has run and nothing
\* disconnects it; isMicOn is the value its closure holds.
onaudioprocess(a, x) ==
  /\ a \in opened
  /\ nBlocks' = nBlocks + 1
  /\ LET b == [n |-> nBlocks + 1, conn |-> a, sample |-> x,
               data |-> ToInt16(x), isActive |-> isActive,
               isMicOn |-> isMicOn, open |-> FALSE]
     IN  IF ~micAtStart[a]
           THEN UNCHANGED <<queued, sentAudio>>
         ELSE IF pc[a] = "done"
           THEN /\ sentAudio' = Append(sentAudio, sendRealtimeInput(a, b))
                /\ UNCHANGED queued
         ELSE /\ queued' = [queued EXCEPT ![a] = Append(@, b)]
              /\ UNCHANGED sentAudio
  /\ UNCHANGED <<isActive, isCamOn, sessionError, sessionRef, mediaStreamRef,
                 frameIntervalRef, outputAudioCtxRef, nextStartTimeRef,
                 audioSourcesRef, currentTime, pc, conns, opened, streams,
                 decoding, playing, nMsgs, sched, afterIntr, overlap, last>>
  /\ UNCHANGED <<turnVars, sideVars, lastCall>>
  /\ UNCHANGED <<isMicOn, micAtStart, stopped>>

\* sessionPromise resolved: sessionRef.current = await sessionPromise. The
\* promise resolves once the connection has opened; the continuation is a
\* step of its own, after onopen, and other callbacks may run in between
\* (onaudioprocess sends through sessionPromise.then for that reason).
resolveSession(a) ==
  /\ pc[a] = "connecting"
  /\ a \in opened
  /\ sessionRef' = a
  /\ pc' = [pc EXCEPT ![a] = "done"]
  /\ last' = "step"
  /\ UNCHANGED <<isActive, isCamOn, sessionError, mediaStreamRef,
                 frameIntervalRef, outputAudioCtxRef, nextStartTimeRef,
                 audioSourcesRef, currentTime, conns, opened, streams,
                 decoding, playing, nMsgs, sched, afterIntr, overlap>>
  /\ UNCHANGED <<turnVars, sideVars, lastCall>>
  /\ sentAudio' = sentAudio \o flush(a)
  /\ queued' = [queued EXCEPT ![a] = <<>>]
  /\ UNCHANGED <<isMicOn, micAtStart, nBlocks, stopped>>

\* sessionPromise rejected (the handshake failed): the catch block runs.
rejectSession(a) ==
  /\ pc[a] = "connecting"
  /\ a \notin opened
  /\ conns[a] \in {"connecting", "errored"}
  /\ conns' = [conns EXCEPT ![a] = "failed"]
  /\ catchStartSession(a, "rejected")
  /\ last' = "rejected"
  /\ UNCHANGED <<isActive, isCamOn, sessionRef, mediaStreamRef,
                 frameIntervalRef, outputAudioCtxRef, nextStartTimeRef,
                 audioSourcesRef, currentTime, opened, streams, decoding,
                 playing, nMsgs, sched, afterIntr, overlap>>
  /\ UNCHANGED <<turnVars, sideVars, lastCall>>
  /\ UNCHANGED <<captureVars, stopped>>

\* The transport of connection a has failed and its error callback runs.
onerror(a) ==
  /\ conns[a] \in {"connecting", "open"}
  /\ sessionError' = NetworkError
  /\ Set(stopSession([Cur EXCEPT !.conns[a] = "errored"]))
  /\ last' = IF Idle(Cur) THEN "onerrorIdle" ELSE "onerror"
  /\ UNCHANGED <<outputAudioCtxRef, currentTime, pc, opened, nMsgs, overlap>>
  /\ UNCHANGED <<sideVars, lastCall>>
  /\ stopped' = TRUE
  /\ UNCHANGED captureVars

\* The service has closed connection a and its close callback runs.
onclose(a) ==
  /\ conns[a] \in {"open", "errored"}
  /\ Set(frameEffect([Cur EXCEPT !.conns[a] = "closed", !.isActive = FALSE]))
  /\ last' = "onclose"
  /\ UNCHANGED <<sessionError, outputAudioCtxRef, currentTime, pc, opened,
                 nMsgs, overlap>>
  /\ UNCHANGED <<sideVars, lastCall>>
  /\ stopped' = TRUE
  /\ UNCHANGED captureVars

\* The Cam button.
toggleCam ==
  /\ Set(frameEffect([Cur EXCEPT !.isCamOn = ~isCamOn]))
  /\ last' = "step"
  /\ UNCHANGED <<sessionError, outputAudioCtxRef, currentTime, pc, opened,
                 nMsgs, overlap>>
  /\ UNCHANGED <<sideVars, lastCall>>
  /\ UNCHANGED <<captureVars, stopped>>

\* A server message that carries nothing.
EmptyMessage ==
  [audio |-> 0, interrupted |-> FALSE, inputTranscription |-> FALSE,
   outputTranscription |-> FALSE, turnComplete |-> FALSE]

\* What one server message may carry for the scheduler: inline audio of
\* some duration (0 = none) and the interrupted flag.
Messages(maxDur) ==
  [audio : 0..maxDur, interrupted : BOOLEAN, inputTranscription : {FALSE},
   outputTranscription : {FALSE}, turnComplete : {FALSE}] \ {EmptyMessage}

\* What one server message may carry for the transcript: the interrupted
\* flag, a fragment of the user's speech, a fragment of the model's speech
\* and the turnComplete flag.
TurnMessages ==
  [audio : {0}, interrupted : BOOLEAN, inputTranscription : BOOLEAN,
   outputTranscription : BOOLEAN, turnComplete : BOOLEAN] \ {EmptyMessage}

\* The interrupted block of onmessage.
interrupted(s) ==
  [CutStretch(s) EXCEPT !.playing = s.playing \ s.audioSourcesRef,
                        !.audioSourcesRef = {},
                        !.nextStartTimeRef = 0,
                        !.afterIntr = TRUE]

\* An update that puts the new entry first.
appendEntry_front(s, e) == [s EXCEPT !.transcript = <<e>> \o s.transcript]

\* setTranscript(prev => [...prev, e]).
appendEntry(s, e) == [s EXCEPT !.transcript = Append(s.transcript, e)]

\* The null that translateToEnglish returns.
Null == [null |-> TRUE, text |-> <<>>]

\* A translateToEnglish that reports a failed call as the translation.
translateToEnglish_failure(text, resp) ==
  IF text = <<>> \/ ~isTranslationEnabled THEN Null
  ELSE IF ~resp.ok THEN [null |-> FALSE, text |-> <<"Translation failed">>]
  ELSE IF trim(resp.text) = Skip THEN Null
  ELSE [null |-> FALSE, text |-> trim(resp.text)]

\* A translateToEnglish that returns whatever the service said.
translateToEnglish_literal(text, resp) ==
  IF text = <<>> \/ ~isTranslationEnabled THEN Null
  ELSE IF ~resp.ok THEN Null
  ELSE [null |-> FALSE, text |-> trim(resp.text)]

\* translateToEnglish for a call whose generateContent comes back with resp.
translateToEnglish(text, resp) ==
  IF text = <<>> \/ ~isTranslationEnabled THEN Null
  ELSE IF ~resp.ok THEN Null
  ELSE IF trim(resp.text) = Skip THEN Null
  ELSE [null |-> FALSE, text |-> trim(resp.text)]

\* translateToEnglish(text) gets as far as its generateContent call, so the
\* caller's await yields to the event loop; otherwise the promise is
\* already resolved with null and the caller runs on in the same turn of
\* the loop.
calls(text) == text # <<>> /\ isTranslationEnabled

\* english || undefined.
orUndefined(english) ==
  IF english.null \/ english.text = <<>> THEN None ELSE english.text

\* The entry a turn completion appends; turn is the message that carried
\* the turnComplete flag (history).
TurnEntry(role, text, english, id) ==
  [role |-> role, text |-> text, englishTranslation |-> orUndefined(english),
   isTranscription |-> FALSE, turn |-> id]

\* The end of the turnComplete block: both accumulators are emptied.
resetAccumulators(s, h) ==
  [s EXCEPT !.currentUserInputRef = <<>>,
            !.currentModelOutputRef = <<>>,
            !.doneTurns = @ \cup {[id |-> h.id, userText |-> h.userText,
                                   modelText |-> h.modelText]}]

\* A model entry that is made for an empty text too.
modelEntry_unconditional(s, h) ==
  IF calls(h.modelText)
    THEN [s EXCEPT !.translating = @ \cup {[h EXCEPT !.phase = "model"]}]
  ELSE resetAccumulators(
         appendEntry(s, TurnEntry("model", h.modelText, Null, h.id)), h)

\* The turnComplete block from if (modelText) on.
modelEntry(s, h) ==
  IF h.modelText = <<>> THEN resetAccumulators(s, h)
  ELSE IF calls(h.modelText)
    THEN [s EXCEPT !.translating = @ \cup {[h EXCEPT !.phase = "model"]}]
  ELSE resetAccumulators(
         appendEntry(s, TurnEntry("model", h.modelText, Null, h.id)), h)

\* The turnComplete block from if (userText) on.
userEntry(s, h) ==
  IF h.userText = <<>> THEN modelEntry(s, h)
  ELSE IF calls(h.userText)
    THEN [s EXCEPT !.translating = @ \cup {[h EXCEPT !.phase = "user"]}]
  ELSE modelEntry(
         appendEntry(s, TurnEntry("user", h.userText, Null, h.id)), h)

\* The turnComplete block: both accumulators are read, then the entries
\* are made.
turnComplete(s, id) ==
  userEntry(s, [id |-> id, userText |-> s.currentUserInputRef,
                modelText |-> s.currentModelOutputRef, phase |-> "user"])

\* The fragments message id carries.
Fragments(id, m) ==
  (IF m.inputTranscription THEN {"u" \o ToString(id)} ELSE {})
    \cup (IF m.outputTranscription THEN {"m" \o ToString(id)} ELSE {})

\* The inputTranscription and outputTranscription lines of onmessage.
transcriptions(s, id, m) ==
  [s EXCEPT
     !.currentUserInputRef =
        IF m.inputTranscription THEN @ \o <<"u" \o ToString(id)>> ELSE @,
     !.currentModelOutputRef =
        IF m.outputTranscription THEN @ \o <<"m" \o ToString(id)>> ELSE @,
     !.fragments = @ \cup Fragments(id, m)]

\* onmessage after its audio block, up to its end or to its first await
\* of a translation call.
afterAudio(s, id, m) ==
  LET s1 == IF m.interrupted THEN interrupted(s) ELSE s
      s2 == transcriptions(s1, id, m)
  IN  IF m.turnComplete THEN turnComplete(s2, id) ELSE s2

\* The start of the audio block of onmessage, up to await decodeAudioData:
\* the cursor is raised to the clock and the handler is suspended.
receiveChunk(s, id, m, now) ==
  [s EXCEPT !.nextStartTimeRef = Max(s.nextStartTimeRef, now),
            !.decoding = s.decoding \cup
               {[id |-> id, msg |-> m, arr |-> now, cut |-> FALSE,
                 first |-> s.afterIntr]},
            !.afterIntr = FALSE]

\* The audio block of onmessage after await decodeAudioData: the source is
\* started at the cursor, the cursor advances by the buffer's duration and
\* the source joins the set.
scheduleChunk(s, h, now) ==
  [s EXCEPT !.decoding = s.decoding \ {h},
            !.sched = s.sched \cup
               {[id |-> h.id, start |-> s.nextStartTimeRef,
                 dur |-> h.msg.audio, arr |-> h.arr, at |-> now,
                 cut |-> h.cut, first |-> h.first]},
            !.playing = s.playing \cup {h.id},
            !.nextStartTimeRef = s.nextStartTimeRef + h.msg.audio,
            !.audioSourcesRef = s.audioSourcesRef \cup {h.id}]

\* The decodes that may complete next. decodeAudioData lives in utils/audio;
\* its await yields to the event loop, so messages arrive and the clock
\* advances while a decode is pending, and any pending decode may be the
\* next to complete.
decodeAudioData == decoding

\* A server message arrives on an open connection.
onmessage(a, m) ==
  /\ conns[a] = "open"
  /\ nMsgs' = nMsgs + 1
  /\ IF m.audio > 0 /\ outputAudioCtxRef # 0
       THEN /\ Set(receiveChunk(Cur, nMsgs + 1, m, currentTime))
            /\ last' = "step"
       ELSE /\ Set(afterAudio(Cur, nMsgs + 1, m))
            /\ last' = IF m.interrupted THEN "interrupted" ELSE "step"
  /\ UNCHANGED <<sessionError, outputAudioCtxRef, currentTime, pc, opened,
                 overlap>>
  /\ UNCHANGED <<sideVars, lastCall>>
  /\ UNCHANGED <<captureVars, stopped>>

\* The decode of a suspended handler completes and the handler runs on.
decoded(h) ==
  /\ h \in decodeAudioData
  /\ Set(afterAudio(scheduleChunk(Cur, h, currentTime), h.id, h.msg))
  /\ last' = IF h.msg.interrupted THEN "interrupted" ELSE "step"
  /\ UNCHANGED <<sessionError, outputAudioCtxRef, currentTime, pc, opened,
                 nMsgs, overlap>>
  /\ UNCHANGED <<sideVars, lastCall>>
  /\ UNCHANGED <<captureVars, stopped>>

\* await decodeAudioData rejects (a malformed chunk): onmessage has no
\* try/catch, so the suspended handler ends there; nothing else of its
\* message is handled and nothing is torn down.
decodeRejected_teardown(s, h) ==
  stopSession([s EXCEPT !.decoding = s.decoding \ {h}])

decodeRejected(s, h) == [s EXCEPT !.decoding = s.decoding \ {h}]

\* The decode of a suspended handler fails.
decodeFailed(h) ==
  /\ h \in decodeAudioData
  /\ Set(decodeRejected(Cur, h))
  /\ last' = "decodeFailed"
  /\ UNCHANGED <<sessionError, outputAudioCtxRef, currentTime, pc, opened,
                 nMsgs, overlap>>
  /\ UNCHANGED <<sideVars, lastCall>>
  /\ UNCHANGED <<captureVars, stopped>>

\* The moment a started source is heard: a start time in the past means now.
Audible(r) == Max(r.start, r.at)

\* The ended event of a source that has played to its end.
ended(id) ==
  /\ id \in playing
  /\ \A r \in sched : r.id = id => currentTime >= Audible(r) + r.dur
  /\ playing' = playing \ {id}
  /\ audioSourcesRef' = audioSourcesRef \ {id}
  /\ last' = "step"
  /\ UNCHANGED <<isActive, isCamOn, sessionError, sessionRef, mediaStreamRef,
                 frameIntervalRef, outputAudioCtxRef, nextStartTimeRef,
                 currentTime, pc, conns, opened, streams, decoding, nMsgs,
                 sched, afterIntr, overlap>>
  /\ UNCHANGED <<turnVars, sideVars, lastCall>>
  /\ UNCHANGED <<captureVars, stopped>>

\* The output clock advances.
tick ==
  /\ outputAudioCtxRef # 0
  /\ currentTime' = currentTime + 1
  /\ last' = "step"
  /\ UNCHANGED <<isActive, isCamOn, sessionError, sessionRef, mediaStreamRef,
                 frameIntervalRef, outputAudioCtxRef, nextStartTimeRef,
                 audioSourcesRef, pc, conns, opened, streams, decoding,
                 playing, nMsgs, sched, afterIntr, overlap>>
  /\ UNCHANGED <<turnVars, sideVars, lastCall>>
  /\ UNCHANGED <<captureVars, stopped>>

\* A translation call of a suspended handler returns and the handler runs
\* on, to its end or to its next translation call.
translated(h, resp) ==
  /\ h \in translating
  /\ LET text == IF h.phase = "user" THEN h.userText ELSE h.modelText
         e == TurnEntry(h.phase, text, translateToEnglish(text, resp), h.id)
         s == appendEntry([Cur EXCEPT !.translating = @ \ {h}], e)
     IN  /\ Set(IF h.phase = "user" THEN modelEntry(s, h)
                                    ELSE resetAccumulators(s, h))
         /\ lastCall' = [id |-> h.id, text |-> text, resp |-> resp]
  /\ last' = "translated"
  /\ UNCHANGED <<sessionError, outputAudioCtxRef, currentTime, pc, opened,
                 nMsgs, overlap, sideVars>>
  /\ UNCHANGED <<captureVars, stopped>>

\* ---- dictation ----------------------------------------------------------
\* The Dictate button: the session's stream is recorded if there is one,
\* otherwise a microphone stream is awaited.
startDictation ==
  /\ dictation = "idle"
  /\ dictation' = IF mediaStreamRef # 0 THEN "recording" ELSE "acquiring"
  /\ last' = "step"
  /\ UNCHANGED <<isActive, isCamOn, sessionError, sessionRef, mediaStreamRef,
                 frameIntervalRef, outputAudioCtxRef, nextStartTimeRef,
                 audioSourcesRef, currentTime, pc, conns, opened, streams,
                 decoding, playing, nMsgs, sched, afterIntr, overlap,
                 turnVars, isTranslationEnabled, transcribing, videoWidth,
                 frames, nTicks, sent, lastCall>>
  /\ UNCHANGED <<captureVars, stopped>>

\* getUserMedia({audio: true}) of startDictation settles: the recorder
\* starts, or the catch block reports the denial.
dictationMedia(ok) ==
  /\ dictation = "acquiring"
  /\ dictation' = IF ok THEN "recording" ELSE "idle"
  /\ last' = "step"
  /\ UNCHANGED <<isActive, isCamOn, sessionError, sessionRef, mediaStreamRef,
                 frameIntervalRef, outputAudioCtxRef, nextStartTimeRef,
                 audioSourcesRef, currentTime, pc, conns, opened, streams,
                 decoding, playing, nMsgs, sched, afterIntr, overlap,
                 turnVars, isTranslationEnabled, transcribing, videoWidth,
                 frames, nTicks, sent, lastCall>>
  /\ UNCHANGED <<captureVars, stopped>>

\* The Stop Dictate button, with recorder.onstop and reader.onloadend up to
\* await transcribeAudio.
stopDictation ==
  /\ dictation = "recording"
  /\ dictation' = "idle"
  /\ transcribing' = transcribing + 1
  /\ last' = "step"
  /\ UNCHANGED <<isActive, isCamOn, sessionError, sessionRef, mediaStreamRef,
                 frameIntervalRef, outputAudioCtxRef, nextStartTimeRef,
                 audioSourcesRef, currentTime, pc, conns, opened, streams,
                 decoding, playing, nMsgs, sched, afterIntr, overlap,
                 turnVars, isTranslationEnabled, videoWidth, frames, nTicks,
                 sent, lastCall>>
  /\ UNCHANGED <<captureVars, stopped>>

\* transcribeAudio for a generateContent that came back with a text.
transcribeAudio(resp) ==
  IF trim(resp.text) = <<>> THEN NoTranscription ELSE trim(resp.text)

\* A dictation that goes through the user's accumulator.
dictated_viaAccumulator(s, text) ==
  [s EXCEPT !.currentUserInputRef = @ \o text]

\* reader.onloadend after a transcribeAudio that returned text.
dictated(s, text) ==
  appendEntry(s, [role |-> "user", text |-> text, englishTranslation |-> None,
                  isTranscription |-> TRUE, turn |-> 0])

\* transcribeAudio settles: an entry is appended, or the catch block raises
\* an alert.
transcribed(resp) ==
  /\ transcribing > 0
  /\ transcribing' = transcribing - 1
  /\ Set(IF resp.ok THEN dictated(Cur, transcribeAudio(resp)) ELSE Cur)
  /\ last' = IF resp.ok THEN "dictated" ELSE "dictationFailed"
  /\ UNCHANGED <<sessionError, outputAudioCtxRef, currentTime, pc, opened,
                 nMsgs, overlap, isTranslationEnabled, dictation, videoWidth,
                 frames, nTicks, sent, lastCall>>
  /\ UNCHANGED <<captureVars, stopped>>

\* ---- frame sampler ------------------------------------------------------
\* The video element reports a new width (0 until a frame is available).
videoResize(w) ==
  /\ w # videoWidth
  /\ videoWidth' = w
  /\ last' = "step"
  /\ UNCHANGED <<isActive, isCamOn, sessionError, sessionRef, mediaStreamRef,
                 frameIntervalRef, outputAudioCtxRef, nextStartTimeRef,
                 audioSourcesRef, currentTime, pc, conns, opened, streams,
                 decoding, playing, nMsgs, sched, afterIntr, overlap,
                 turnVars, isTranslationEnabled, dictation, transcribing,
                 frames, nTicks, sent, lastCall>>
  /\ UNCHANGED <<captureVars, stopped>>

\* The callback of the sampling timer: a frame is drawn and handed to
\* toBlob if there is a session handle and the video has a width. The
\* frame remembers the tick it was drawn at (history).
frameTick ==
  /\ frameIntervalRef
  /\ nTicks' = nTicks + 1
  /\ frames' =
       IF sessionRef # 0 /\ videoWidth > 0
         THEN frames \cup
                {[tick |-> nTicks + 1, isCamOn |-> isCamOn,
                  isActive |-> isActive,
                  open |-> \E a \in Attempts : conns[a] = "open",
                  videoWidth |-> videoWidth]}
         ELSE frames
  /\ last' = "frameTick"
  /\ UNCHANGED <<isActive, isCamOn, sessionError, sessionRef, mediaStreamRef,
                 frameIntervalRef, outputAudioCtxRef, nextStartTimeRef,
                 audioSourcesRef, currentTime, pc, conns, opened, streams,
                 decoding, playing, nMsgs, sched, afterIntr, overlap,
                 turnVars, isTranslationEnabled, dictation, transcribing,
                 videoWidth, sent, lastCall>>
  /\ UNCHANGED <<captureVars, stopped>>

\* toBlob and the FileReader of a drawn frame have finished: the frame is
\* sent if there is a session handle.
frameEncoded(f) ==
  /\ f \in frames
  /\ frames' = frames \ {f}
  /\ sent' = IF sessionRef # 0 THEN sent \cup {f} ELSE sent
  /\ last' = "step"
  /\ UNCHANGED <<isActive, isCamOn, sessionError, sessionRef, mediaStreamRef,
                 frameIntervalRef, outputAudioCtxRef, nextStartTimeRef,
                 audioSourcesRef, currentTime, pc, conns, opened, streams,
                 decoding, playing, nMsgs, sched, afterIntr, overlap,
                 turnVars, isTranslationEnabled, dictation, transcribing,
                 videoWidth, nTicks, lastCall>>
  /\ UNCHANGED <<captureVars, stopped>>

Next ==
  \/ \E a \in Attempts : startSession(a)
  \/ \E a \in Attempts : getUserMediaOk(a)
  \/ \E a \in Attempts : getUserMediaFail(a)
  \/ \E a \in Attempts : onopen(a)
  \/ \E a \in Attempts : resolveSession(a)
  \/ \E a \in Attempts : rejectSession(a)
  \/ \E a \in Attempts : onerror(a)
  \/ \E a \in Attempts : onclose(a)
  \/ toggleCam
  \/ Leave
  \/ \E a \in Attempts, m \in Messages(MaxLifeDur) :
        nMsgs < MaxMsgs /\ onmessage(a, m)
  \/ \E h \in decoding : decoded(h)
  \/ \E id \in MsgIds : ended(id)
  \/ currentTime < MaxLifeClock /\ tick

Spec == Init /\ [][Next]_vars

\* ---- the microphone over the life of the sessions ------------------------
\* The lifecycle with the Mic button and the capture callback, for silent
\* blocks and without server messages.
NextAudio ==
  \/ \E a \in Attempts : startSession(a)
  \/ \E a \in Attempts : getUserMediaOk(a)
  \/ \E a \in Attempts : getUserMediaFail(a)
  \/ \E a \in Attempts : onopen(a)
  \/ \E a \in Attempts : resolveSession(a)
  \/ \E a \in Attempts : rejectSession(a)
  \/ \E a \in Attempts : onerror(a)
  \/ \E a \in Attempts : onclose(a)
  \/ Leave
  \/ toggleMic
  \/ \E a \in Attempts : nBlocks < MaxBlocks /\ onaudioprocess(a, 0)

SpecAudio == Init /\ [][NextAudio]_vars

\* ---- playback in one active session -------------------------------------
\* The state after startSession, getUserMediaOk, onopen and resolveSession
\* of the first attempt.
InitActive ==
  /\ isActive = TRUE
  /\ isCamOn = TRUE
  /\ sessionError = NoError
  /\ sessionRef = 1
  /\ mediaStreamRef = 1
  /\ frameIntervalRef = TRUE
  /\ outputAudioCtxRef = 1
  /\ nextStartTimeRef = 0
  /\ audioSourcesRef = {}
  /\ currentTime = 0
  /\ pc = [a \in Attempts |-> IF a = 1 THEN "done" ELSE "idle"]
  /\ conns = [a \in Attempts |-> IF a = 1 THEN "open" ELSE "none"]
  /\ opened = {1}
  /\ streams = [a \in Attempts |-> IF a = 1 THEN "live" ELSE "none"]
  /\ decoding = {}
  /\ playing = {}
  /\ nMsgs = 0
  /\ sched = {}
  /\ afterIntr = FALSE
  /\ overlap = {}
  /\ last = "step"
  /\ InitAggregator

InitPlayback == InitActive /\ isTranslationEnabled = TRUE

NextPlayback ==
  \/ \E m \in Messages(MaxDur) : nMsgs < MaxChunks /\ onmessage(1, m)
  \/ \E h \in decoding : decoded(h)
  \/ \E h \in decoding : decodeFailed(h)
  \/ \E id \in MsgIds : ended(id)
  \/ currentTime < MaxClock /\ tick

SpecPlayback == InitPlayback /\ [][NextPlayback]_vars

\* ---- the encoder in one active session ----------------------------------
NextEncode ==
  \E x \in Samples : nBlocks < MaxBlocks /\ onaudioprocess(1, x)

SpecEncode == InitPlayback /\ [][NextEncode]_vars

\* ---- the transcript, in an active session and after it ------------------
\* The handlers of a session see isTranslationEnabled as it was when
\* startSession ran: the switch is set before the session starts.
InitTurns == InitActive /\ isTranslationEnabled \in BOOLEAN

\* Dictations begun so far that may still add an entry or have added one.
Dictations ==
  Cardinality({i \in DOMAIN transcript : transcript[i].isTranscription})
    + transcribing + (IF dictation = "idle" THEN 0 ELSE 1)

NextTurns ==
  \/ \E a \in Attempts, m \in TurnMessages :
        nMsgs < MaxTurnMsgs /\ onmessage(a, m)
  \/ \E h \in translating, resp \in Responses : translated(h, resp)
  \/ Dictations < MaxDictations /\ startDictation
  \/ \E ok \in BOOLEAN : dictationMedia(ok)
  \/ stopDictation
  \/ \E resp \in Responses : transcribed(resp)
  \/ Leave
  \/ \E a \in Attempts : onerror(a)
  \/ \E a \in Attempts : onclose(a)

SpecTurns == InitTurns /\ [][NextTurns]_vars

\* ---- the transcript over the life of the sessions -----------------------
\* As NextTurns, and the session may be started again after it has ended.
NextTranscript ==
  \/ \E a \in Attempts, m \in TurnMessages :
        nMsgs < MaxLifeTurnMsgs /\ onmessage(a, m)
  \/ \E h \in translating, resp \in Responses : translated(h, resp)
  \/ Dictations < MaxDictations /\ startDictation
  \/ \E ok \in BOOLEAN : dictationMedia(ok)
  \/ stopDictation
  \/ \E resp \in Responses : transcribed(resp)
  \/ Leave
  \/ \E a \in Attempts : onerror(a)
  \/ \E a \in Attempts : onclose(a)
  \/ \E a \in Attempts : startSession(a)
  \/ \E a \in Attempts : getUserMediaOk(a)
  \/ \E a \in Attempts : getUserMediaFail(a)
  \/ \E a \in Attempts : onopen(a)
  \/ \E a \in Attempts : resolveSession(a)
  \/ \E a \in Attempts : rejectSession(a)

SpecTranscript == InitTurns /\ [][NextTranscript]_vars

\* ---- the frame sampler over the life of the sessions --------------------
NextFrames ==
  \/ \E a \in Attempts : startSession(a)
  \/ \E a \in Attempts : getUserMediaOk(a)
  \/ \E a \in Attempts : getUserMediaFail(a)
  \/ \E a \in Attempts : onopen(a)
  \/ \E a \in Attempts : resolveSession(a)
  \/ \E a \in Attempts : rejectSession(a)
  \/ \E a \in Attempts : onerror(a)
  \/ \E a \in Attempts : onclose(a)
  \/ toggleCam
  \/ Leave
  \/ \E w \in 0..MaxWidth : videoResize(w)
  \/ nTicks < MaxTicks /\ frameTick
  \/ \E f \in frames : frameEncoded(f)

SpecFrames == Init /\ [][NextFrames]_vars

\* ---- claims: playback scheduling ----------------------------------------
\* Chunks scheduled in the current stretch: no interruption, stop or new
\* session since their messages arrived.
Stretch == {r \in sched : ~r.cut}

\* The ids of the chunks received and not dropped from the history.
ChunkIds == {r.id : r \in sched} \cup {h.id : h \in decoding}

\* j is the chunk received next after i.
Consecutive(i, j) ==
  /\ i.id < j.id
  /\ ~\E k \in ChunkIds : i.id < k /\ k < j.id

\* r starts at the current clock time: at a value the clock had between the
\* arrival of its message and the moment it was handed to the output.
AtClock(r) == r.arr <= r.start /\ r.start <= r.at

\* C1: gapless playback. Of two chunks received one after the other in one
\* uninterrupted stretch, the second is scheduled at start + duration of the
\* first when it arrived before the first had finished, and at the clock
\* time of its arrival otherwise.
C1_Gapless ==
  \A i \in Stretch, j \in Stretch :
    Consecutive(i, j) =>
      IF j.arr < i.start + i.dur
        THEN j.start = i.start + i.dur
        ELSE AtClock(j)

\* C2: no overlap. The audible intervals of two chunks of one stretch are
\* disjoint, a chunk started in the past being heard from the moment it is
\* handed to the output.
C2_NoOverlap ==
  \A i \in Stretch, j \in Stretch :
    i.id # j.id =>
      \/ Audible(i) + i.dur <= Audible(j)
      \/ Audible(j) + j.dur <= Audible(i)

\* C3: arrival order. Of two chunks of one stretch, the one whose message
\* was delivered first has the strictly earlier start time.
C3_ArrivalOrder ==
  \A i \in Stretch, j \in Stretch : i.id < j.id => i.start < j.start

\* C4: handling an interruption stops every tracked source, empties the set
\* and zeroes the cursor in one step, and the next chunk received after it is
\* scheduled at the current clock time.
C4_Interruption ==
  /\ last = "interrupted" =>
       /\ audioSourcesRef = {}
       /\ playing = {}
       /\ nextStartTimeRef = 0
  /\ \A r \in Stretch : r.first => AtClock(r)

\* ---- claims: session lifecycle ------------------------------------------
\* The session of attempt a has ended and everything it held is released.
Released(a) ==
  /\ conns[a] \notin {"connecting", "open"}
  /\ streams[a] # "live"

\* The state stopSession leaves behind.
CleanedUp ==
  /\ ~isActive
  /\ sessionRef = 0
  /\ mediaStreamRef = 0
  /\ ~frameIntervalRef
  /\ audioSourcesRef = {}
  /\ playing = {}
  /\ nextStartTimeRef = 0

\* C5: a stop requested in an active session closes the connection, drops
\* the handle, cancels the frame timer, stops the media tracks and every
\* scheduled source, empties the set, zeroes the cursor and ends the session,
\* all within the call.
C5_StopCleansUp ==
  last = "leave" => CleanedUp /\ \A a \in opened : Released(a)

\* C6: a start request made while another session is connecting or active
\* never gives two live connections or two live media streams.
Live(a) == conns[a] \in {"connecting", "open"}

C6_SingleSession ==
  \A a \in overlap : \A b \in Attempts \ {a} :
    /\ ~(Live(a) /\ Live(b))
    /\ ~(streams[a] = "live" /\ streams[b] = "live")

\* C7: a transport error (error callback or failed handshake) performs the
\* full cleanup, sets a session error and leaves the session idle.
C7_ErrorCleansUp ==
  last \in {"onerror", "onerrorIdle", "rejected"} =>
    /\ CleanedUp
    /\ sessionError # NoError
    /\ \A a \in Attempts : conns[a] \in {"errored", "failed"} => Released(a)

\* C8: a remote close performs the same cleanup as an explicit stop.
C8_CloseCleansUp ==
  last = "onclose" =>
    /\ CleanedUp
    /\ \A a \in Attempts : conns[a] = "closed" => Released(a)

\* C9: a failed device acquisition ends the start attempt: it opens no
\* connection, never makes the session active, sets the session error and is
\* not retried.
C9_AcquireFailureTerminal ==
  [][ /\ last' = "acquireFailed" =>
           /\ \E a \in Attempts : pc[a] = "acquiring" /\ pc'[a] = "acqFailed"
           /\ sessionError' = AccessError
           /\ isActive' = isActive
           /\ conns' = conns
      /\ \A a \in Attempts :
           /\ pc[a] = "acqFailed" => pc'[a] = "acqFailed"
           /\ pc'[a] = "acqFailed" =>
                /\ conns'[a] = "none"
                /\ streams'[a] = "none"
                /\ a \notin opened' ]_vars

C9_Witness ==
  /\ last = "acquireFailed"
  /\ \E a \in Attempts : pc[a] = "acqFailed"
  /\ sessionError = AccessError

\* The part of the state stopSession works on.
Refs(s) ==
  [isActive |-> s.isActive, sessionRef |-> s.sessionRef,
   mediaStreamRef |-> s.mediaStreamRef,
   frameIntervalRef |-> s.frameIntervalRef,
   nextStartTimeRef |-> s.nextStartTimeRef,
   audioSourcesRef |-> s.audioSourcesRef, conns |-> s.conns,
   streams |-> s.streams, playing |-> s.playing]

\* C10: teardown is idempotent. stopSession changes nothing in an idle
\* state, nor in the state a stop has just left.
C10_StopIdempotent ==
  (Idle(Cur) \/ last \in {"leave", "onerror", "onerrorIdle"}) =>
    Refs(stopSession(Cur)) = Refs(Cur)

\* stopSession has just run in a state that was idle already.
C10_Witness == last = "onerrorIdle" /\ Idle(Cur)

\* ---- claims: the transcript ---------------------------------------------
\* The text a suspended turn completion has read and not yet appended.
Unflushed(h) ==
  IF h.phase = "user" THEN h.userText \o h.modelText ELSE h.modelText

\* Fragment f is still on its way to the transcript or has arrived in it.
Kept(f) ==
  \/ In(f, currentUserInputRef \o currentModelOutputRef)
  \/ \E h \in translating : In(f, Unflushed(h))
  \/ \E i \in DOMAIN transcript : In(f, transcript[i].text)

\* C11: no transcript fragment is lost: every fragment received is in an
\* accumulator, in the text a pending turn completion is about to append,
\* or in the text of a transcript entry, also when it arrived while an
\* earlier turn completion was awaiting its translation call.
C11_NoFragmentLost == \A f \in fragments : Kept(f)

\* The places in the transcript of the entries with role r that the turn
\* completion of message id appended.
EntriesOf(id, r) ==
  {i \in DOMAIN transcript : transcript[i].turn = id /\ transcript[i].role = r}

\* C12: a turn completion appends exactly one entry for each non-empty
\* accumulator and none for an empty one, each with the accumulated text,
\* and the user entry comes before the model entry of the same turn.
C12_OneEntryEach ==
  \A d \in doneTurns :
    /\ Cardinality(EntriesOf(d.id, "user")) = IF d.userText # <<>> THEN 1 ELSE 0
    /\ Cardinality(EntriesOf(d.id, "model")) = IF d.modelText # <<>> THEN 1 ELSE 0
    /\ \A i \in EntriesOf(d.id, "user") : transcript[i].text = d.userText
    /\ \A i \in EntriesOf(d.id, "model") : transcript[i].text = d.modelText
    /\ \A i \in EntriesOf(d.id, "user"), j \in EntriesOf(d.id, "model") : i < j

\* Turn completions have run to their end with both texts, with the user's
\* text only and with no text.
C12_Witness ==
  /\ \E d \in doneTurns : d.userText # <<>> /\ d.modelText # <<>>
  /\ \E d \in doneTurns : d.userText = <<>> /\ d.modelText = <<>>

\* The entry appended last.
LastEntry == transcript[Len(transcript)]

\* C13: the englishTranslation of an entry is the translation service's
\* result (its text, trimmed) for that entry's own text; when the service
\* returns the sentinel SKIP, or nothing, the entry has no translation, and
\* no entry carries the sentinel as its translation.
C13_TranslationOfOwnText ==
  /\ last = "translated" /\ lastCall.resp.ok =>
        /\ LastEntry.text = lastCall.text
        /\ LastEntry.englishTranslation =
             IF trim(lastCall.resp.text) \in {Skip, <<>>}
               THEN None ELSE trim(lastCall.resp.text)
  /\ \A i \in DOMAIN transcript : transcript[i].englishTranslation # Skip

\* An entry carries the translation Hello and the call that returned last
\* came back with the sentinel.
C13_Witness ==
  /\ last = "translated"
  /\ lastCall.resp.ok
  /\ trim(lastCall.resp.text) = Skip
  /\ \E i \in DOMAIN transcript :
        /\ transcript[i].englishTranslation = <<"Hello">>
        /\ transcript[i].text # <<>>

\* C14: a failing translation call does not block the transcript: the
\* entry is appended with its original text and without a translation,
\* and the turn completion goes on: the call for the model entry is under
\* way, or the turn completion has ended and both accumulators are empty.
C14_FailureDegrades ==
  last = "translated" /\ ~lastCall.resp.ok =>
    /\ LastEntry.turn = lastCall.id
    /\ LastEntry.text = lastCall.text
    /\ LastEntry.text # <<>>
    /\ LastEntry.englishTranslation = None
    /\ \/ /\ LastEntry.role = "user"
          /\ \E h \in translating :
                h.id = lastCall.id /\ h.phase = "model" /\ h.modelText # <<>>
       \/ /\ \E d \in doneTurns :
                /\ d.id = lastCall.id
                /\ LastEntry.role = "user" => d.modelText = <<>>
          /\ currentUserInputRef = <<>>
          /\ currentModelOutputRef = <<>>

\* The translation of a user's text has failed, its entry is there and the
\* call for the model's text of the same turn is under way.
C14_Witness ==
  /\ last = "translated"
  /\ ~lastCall.resp.ok
  /\ LastEntry.role = "user"
  /\ \E h \in translating : h.id = lastCall.id /\ h.phase = "model"

\* C15: the transcript is append-only: every step (turn completion,
\* dictation completion, start, stop, interruption, error) leaves the
\* entries there are unchanged and in their order, and adds only at the end.
C15_AppendOnly ==
  [][ /\ Len(transcript') >= Len(transcript)
      /\ SubSeq(transcript', 1, Len(transcript)) = transcript ]_vars

\* The entries of a turn and of a dictation are in the transcript, made in
\* a session that was then left, and a second session has opened.
C15_Witness ==
  /\ Len(transcript) >= 3
  /\ \E i \in DOMAIN transcript : transcript[i].isTranscription
  /\ conns[1] = "closed"
  /\ conns[2] = "open"

\* ---- claims: the frame sampler ------------------------------------------
\* Frame f was drawn at a tick at which the camera was on, the session was
\* active with an open connection and the video had a width.
SampledInSession(f) ==
  f.isCamOn /\ f.isActive /\ f.open /\ f.videoWidth > 0

SessionState ==
  <<isActive, sessionRef, conns, streams, nextStartTimeRef, audioSourcesRef,
    playing, decoding, translating, currentUserInputRef,
    currentModelOutputRef>>

\* C17: dictation bypasses the accumulators: a transcription that succeeds
\* appends exactly one entry, of role user and marked as dictation, and
\* leaves both accumulators as they are; one that fails appends nothing;
\* either way the session state is as before.
C17_DictationBypasses ==
  [][ transcribing' < transcribing =>
        /\ SessionState' = SessionState
        /\ IF last' = "dictated"
             THEN /\ Len(transcript') = Len(transcript) + 1
                  /\ SubSeq(transcript', 1, Len(transcript)) = transcript
                  /\ transcript'[Len(transcript')].role = "user"
                  /\ transcript'[Len(transcript')].isTranscription
                  /\ transcript'[Len(transcript')].text # <<>>
             ELSE /\ last' = "dictationFailed"
                  /\ transcript' = transcript ]_vars

\* A dictation has added its entry in an active session while the user's
\* accumulator held a fragment and a turn completion was pending.
C17_Witness ==
  /\ last = "dictated"
  /\ LastEntry.isTranscription
  /\ isActive
  /\ currentUserInputRef # <<>>
  /\ translating # {}

\* ---- claims: the scheduler and barge-in ---------------------------------
\* C18: the start time handed to the output for a chunk is the larger of
\* the cursor and the output clock at the moment the chunk is scheduled,
\* so it is never before the clock, and the cursor is then that start time
\* plus the chunk's duration (an interrupted flag in the same message
\* resets the cursor after that).
C18_StartAtScheduling ==
  [][ \A r \in sched' \ sched :
        /\ r.start = Max(nextStartTimeRef, currentTime)
        /\ r.start >= currentTime
        /\ nextStartTimeRef' = r.start + r.dur ]_vars

\* C19: barge-in abandons the old response: after an interruption no chunk
\* whose message arrived before it is scheduled or playing, also not one
\* whose decode was pending when the interruption was handled.
C19_BargeInAbandons ==
  /\ \A r \in sched : ~r.cut
  /\ last = "interrupted" => playing = {}

\* ---- claims: one entry per turn -----------------------------------------
\* The entries whose text holds fragment f.
EntriesWith(f) == {i \in DOMAIN transcript : In(f, transcript[i].text)}

\* C20: each turn's text is emitted once: a fragment is in the text of at
\* most one transcript entry, also when a second turn completion arrives
\* while the first is awaiting its translation call.
C20_EmittedOnce == \A f \in fragments : Cardinality(EntriesWith(f)) <= 1

\* ---- claims: the text of a turn -----------------------------------------
\* The messages that carried turnComplete.
TurnIds == {d.id : d \in doneTurns} \cup {h.id : h \in translating}

\* The turn completion before that of message t (0 if there is none).
PrevFlush(t) ==
  LET before == {k \in TurnIds : k < t}
  IN  IF before = {} THEN 0
      ELSE CHOOSE k \in before : \A j \in before : j <= k

\* The fragments of role r ("u" or "m") that messages from..to carried, in
\* the order of arrival.
RECURSIVE Received(_, _, _)
Received(r, from, to) ==
  IF from > to THEN <<>>
  ELSE (IF (r \o ToString(from)) \in fragments
          THEN <<r \o ToString(from)>> ELSE <<>>)
         \o Received(r, from + 1, to)

\* C21: the text of an entry made at turn completion is the concatenation,
\* in arrival order, of the fragments received for its role since the
\* previous flush: user fragments only in user entries, model fragments
\* only in model entries, nothing replaced.
C21_TextIsConcatenation ==
  \A i \in DOMAIN transcript :
    transcript[i].turn # 0 =>
      transcript[i].text =
        Received(IF transcript[i].role = "user" THEN "u" ELSE "m",
                 PrevFlush(transcript[i].turn) + 1, transcript[i].turn)

\* ---- claims: the session's error and activity ---------------------------
\* A step in which a start is requested.
StartRequested == \E a \in Attempts : pc[a] = "idle" /\ pc'[a] = "acquiring"

\* C22: after a transport error the error message stays as it is for as
\* long as no new start is requested, and every start request clears it.
C22_ErrorRetained ==
  [][ /\ StartRequested => sessionError' = NoError
      /\ sessionError = NetworkError /\ ~StartRequested
            => sessionError' = NetworkError ]_vars

\* The open callback of some connection runs in this step.
Opens == \E a \in Attempts : conns[a] = "connecting" /\ conns'[a] = "open"

\* C23: isActive becomes true only through the open callback, and after a
\* stop, close or error it does not become true again before a new start
\* is requested.
C23_ActivatedByOpenOnly ==
  [][ /\ (~isActive /\ isActive') => Opens
      /\ stopped => ~isActive' ]_vars

\* ---- claims: the microphone ---------------------------------------------
\* C25: the audio blocks are sent in the order of their capture callbacks,
\* each at most once, blocks captured before the connection promise
\* resolved included.
C25_SentInCaptureOrder ==
  \A i, j \in DOMAIN sentAudio : i < j => sentAudio[i].n < sentAudio[j].n

\* The same for the blocks of one connection.
C25_PerConnection ==
  \A i, j \in DOMAIN sentAudio :
    (i < j /\ sentAudio[i].conn = sentAudio[j].conn)
       => sentAudio[i].n < sentAudio[j].n

\* C27: an audio block reaches the service only if the session was active
\* and the Mic toggle was on when its capture callback ran.
C27_SentOnlyWhenLive ==
  \A i \in DOMAIN sentAudio :
    sentAudio[i].open => (sentAudio[i].isActive /\ sentAudio[i].isMicOn)

C27_ActiveOnly ==
  \A i \in DOMAIN sentAudio : sentAudio[i].open => sentAudio[i].isActive

C27_MicOnly ==
  \A i \in DOMAIN sentAudio : sentAudio[i].open => sentAudio[i].isMicOn

\* ---- claims: the encoder ------------------------------------------------
Abs(n) == IF n >= 0 THEN n ELSE -n

\* The integers that d stands for after a reduction modulo 2^16.
Unwrapped(d) == {d - 2 * Scale, d, d + 2 * Scale}

\* What the encoder gives for 0.0, -1.0 and 1.0, and the same sample gives
\* the same value.
FixedPoints ==
  /\ \A i \in DOMAIN sentAudio :
       LET k == sentAudio[i].sample
           d == sentAudio[i].data
       IN  /\ d \in -Scale .. Scale - 1
           /\ k = 0 => d = 0
           /\ k = -(4 * Scale) => d = -Scale
           /\ k = 4 * Scale => d \in {Scale - 1, -Scale}
  /\ \A i, j \in DOMAIN sentAudio :
       sentAudio[i].sample = sentAudio[j].sample
          => sentAudio[i].data = sentAudio[j].data

\* C26 as stated: the encoded value is s * 32768 rounded to a nearest
\* integer (a tie either way) and reduced to 16 bits by wrap-around.
C26_RoundedAndWrapped ==
  /\ FixedPoints
  /\ \A i \in DOMAIN sentAudio :
       \E t \in Unwrapped(sentAudio[i].data) :
         Abs(4 * t - sentAudio[i].sample) <= 2

\* C26: the encoded value is s * 32768 with its fraction dropped (toward
\* zero), reduced to 16 bits by wrap-around without a clamp; 0.0 gives 0,
\* -1.0 gives -32768, 1.0 gives 32767 or the wrapped -32768, and the value
\* depends on the sample only.
C26_TruncatedAndWrapped ==
  /\ FixedPoints
  /\ \A i \in DOMAIN sentAudio :
       \E t \in Unwrapped(sentAudio[i].data) :
         /\ (t >= 0 /\ sentAudio[i].sample >= 0)
              \/ (t <= 0 /\ sentAudio[i].sample <= 0)
         /\ 4 * Abs(t) <= Abs(sentAudio[i].sample)
         /\ Abs(sentAudio[i].sample) < 4 * Abs(t) + 4

C26_Witness ==
  /\ \E i \in DOMAIN sentAudio : sentAudio[i].sample = 4 * Scale
  /\ \E i \in DOMAIN sentAudio : sentAudio[i].sample = -3

\* ---- claims: a chunk that fails to decode -------------------------------
\* C24: a decode failure of one chunk leaves the session as it was: still
\* active, its connection, media stream and frame timer intact, no session
\* error set, and the cursor and the scheduled sources untouched, so that
\* the chunks that follow are scheduled as they would have been.
C24_DecodeFailureIsLocal ==
  [][ last' = "decodeFailed" =>
        /\ isActive' /\ sessionError' = NoError
        /\ UNCHANGED <<isActive, sessionError, sessionRef, conns,
                       mediaStreamRef, streams, frameIntervalRef,
                       outputAudioCtxRef, nextStartTimeRef, audioSourcesRef,
                       playing, sched>> ]_vars

C24_Witness ==
  /\ last = "decodeFailed"
  /\ isActive /\ conns[1] = "open" /\ frameIntervalRef
  /\ decoding # {} /\ audioSourcesRef # {}

\* ---- claims: after a stop -----------------------------------------------
\* C28: once stopSession has left the player empty (no source in the set,
\* cursor 0) and the connection closed, it stays so for as long as the
\* session is not active: a chunk whose decode was pending at the stop is
\* not scheduled, no source is started and the cursor stays 0.
C28_PendingChunkDropped ==
  [][ ( /\ stopped /\ ~isActive /\ ~isActive'
        /\ \A a \in Attempts : conns[a] # "open"
        /\ audioSourcesRef = {} /\ nextStartTimeRef = 0 )
      => ( /\ audioSourcesRef' = {} /\ nextStartTimeRef' = 0
           /\ playing' \subseteq playing ) ]_vars

\* ---- claims: the accumulators across sessions ---------------------------
\* C29: when a session becomes active both accumulators are empty.
C29_AccumulatorsStartEmpty ==
  [][ (~isActive /\ isActive')
        => (currentUserInputRef' = <<>> /\ currentModelOutputRef' = <<>>) ]_vars

====
